---- MODULE Spec2Model ----
(***************************************************************************)
(* State-machine model of src/data_cleaner.py.py: the Tk event handlers    *)
(* load_file, preview_missing / toggle_action / apply_missing,             *)
(* preview_duplicates, preview_outliers / apply_outliers and save_cleaned, *)
(* acting on the module globals df and report.                             *)
(*                                                                         *)
(* Numbers.  A numeric cell holds Scale times its value, Scale being the   *)
(* least common multiple of 1..MaxRows, so that the mean of up to MaxRows  *)
(* loaded values is an integer of the model; quantiles are kept times 4    *)
(* and the IQR bounds times 8.  The arithmetic is exact (no float          *)
(* rounding).  A text or datetime cell holds a code for its value.         *)
(***************************************************************************)
EXTENDS Integers, Sequences, FiniteSets, TLC

VARIABLES df, report, buttons, mwin, owin, saved, loads

vars == <<df, report, buttons, mwin, owin, saved, loads>>

-----------------------------------------------------------------------------
(* Bounds of the model *)

\* rows of the first table loaded
MaxRows == 4
\* rows of a table loaded over an already loaded one
MaxReloadRows == 1
\* successful loads in one behaviour
MaxLoads == 2
\* rows of a loaded sheet that has empty cells in either column
MaxSheetRows == 4

-----------------------------------------------------------------------------
(* Table model: a pandas DataFrame *)

\* column labels, in column order
Cols == <<"X", "Y">>

ColSet == {Cols[i] : i \in 1..Len(Cols)}

\* the missing-value marker (NaN / NaT / None)
Null == 0 - 1

RECURSIVE Gcd(_, _)
Gcd(a, b) == IF b = 0 THEN a ELSE Gcd(b, a % b)

RECURSIVE LcmUpTo(_)
LcmUpTo(n) == IF n <= 1 THEN 1 ELSE (LcmUpTo(n - 1) * n) \div Gcd(LcmUpTo(n - 1), n)

Scale == LcmUpTo(MaxRows)

\* the values a loaded cell of column c can hold
RawVals(c) == IF c = "X" THEN {Null, 1 * Scale, 3 * Scale} ELSE {1 * Scale, 3 * Scale}

\* placeholder written into text columns
Unknown == 0

\* pd.Timestamp.today(), as a datetime code
Today == 2 * Scale

Dtypes == {"number", "datetime", "object"}

RowVals == {r \in [ColSet -> {Null, 1 * Scale, 3 * Scale}] : \A c \in ColSet : r[c] \in RawVals(c)}

RECURSIVE SeqsUpTo(_, _)
SeqsUpTo(S, n) ==
    IF n = 0 THEN {<<>>}
    ELSE LET shorter == SeqsUpTo(S, n - 1)
         IN  shorter \cup {Append(s, x) : s \in {t \in shorter : Len(t) = n - 1}, x \in S}

NullCount(rows, c) == Cardinality({i \in 1..Len(rows) : rows[i][c] = Null})

NonNull(rows, c) == {i \in 1..Len(rows) : rows[i][c] # Null}

\* dtypes read_excel can infer for a parsed sheet: no data rows give object
\* columns, an all-empty column is float64, a column with values is of the
\* type of its values
InferableDtypes(rows) ==
    {dt \in [ColSet -> Dtypes] :
        \A c \in ColSet :
            IF Len(rows) = 0 THEN dt[c] = "object"
            ELSE IF NonNull(rows, c) = {} THEN dt[c] = "number"
            ELSE c = "Y" => dt[c] # "datetime"}

\* the rows numbered in I, in table order
RECURSIVE TakeRows(_, _, _)
TakeRows(i, rows, I) ==
    IF i > Len(rows) THEN <<>>
    ELSE (IF i \in I THEN <<rows[i]>> ELSE <<>>) \o TakeRows(i + 1, rows, I)

NoneDf == [none |-> TRUE, rows |-> <<>>, dtypes |-> [c \in ColSet |-> "object"]]

-----------------------------------------------------------------------------
(* Cleaning report: the dict `report` *)

Absent == 0 - 1

NoActions == [k \in {} |-> 0]

EmptyReport ==
    [initial_rows |-> Absent, initial_columns |-> Absent, actions |-> NoActions,
     final_rows |-> Absent, final_columns |-> Absent]

MissingKey(c) == "missing_filled_" \o c

DuplicatesKey == "duplicates_removed"

OutlierKey(c) == "outliers_removed_" \o c

\* actions[key] = count
Record(actions, key, count) ==
    [k \in DOMAIN actions \cup {key} |-> IF k = key THEN count ELSE actions[k]]

-----------------------------------------------------------------------------
(* Preview windows.  At most one window of each kind is open at a time;   *)
(* cycle is the number of the load the window was opened under.          *)

NoWindow == [open |-> FALSE]

\* Faulty variant, for comparison: the buttons are created enabled
InitButtonsNormal ==
    /\ df = NoneDf
    /\ report = EmptyReport
    /\ buttons = "normal"
    /\ mwin = NoWindow
    /\ owin = NoWindow
    /\ saved = [table |-> FALSE, report |-> FALSE]
    /\ loads = 0

Init ==
    /\ df = NoneDf
    /\ report = EmptyReport
    /\ buttons = "disabled"
    /\ mwin = NoWindow
    /\ owin = NoWindow
    /\ saved = [table |-> FALSE, report |-> FALSE]
    /\ loads = 0

-----------------------------------------------------------------------------
(* load_file *)

\* df and report after read_excel returned the sheet (rows, dt)
Loaded(rows, dt) ==
    /\ df' = [none |-> FALSE, rows |-> rows, dtypes |-> dt]
    /\ report' = [EmptyReport EXCEPT !.initial_rows = Len(rows),
                                     !.initial_columns = Len(Cols)]
    /\ buttons' = "normal"
    /\ loads' = loads + 1
    /\ UNCHANGED <<mwin, owin, saved>>

\* the first successful load
LoadFile ==
    /\ loads = 0
    /\ \E rows \in SeqsUpTo(RowVals, MaxRows) :
       \E dt \in InferableDtypes(rows) : Loaded(rows, dt)

\* a successful load over an already loaded table
Reload ==
    /\ loads >= 1
    /\ loads < MaxLoads
    /\ \E rows \in SeqsUpTo(RowVals, MaxReloadRows) :
       \E dt \in InferableDtypes(rows) : Loaded(rows, dt)

\* a row of a sheet in which any cell may be empty
SheetRowVals ==
    {r \in [ColSet -> {Null, 1 * Scale, 3 * Scale}] : r["X"] # 3 * Scale}

\* the first successful load, of a sheet of number and text columns with
\* empty cells in either column
LoadSheet ==
    /\ loads = 0
    /\ \E rows \in SeqsUpTo(SheetRowVals, MaxSheetRows) :
       \E dt \in {d \in InferableDtypes(rows) : d["X"] # "datetime"} : Loaded(rows, dt)

\* a sheet given by its two columns of cell values, each value Scale times
\* the number written here
SheetOf(xs, ys) ==
    [i \in 1..Len(xs) |->
        [X |-> IF xs[i] = Null THEN Null ELSE xs[i] * Scale,
         Y |-> IF ys[i] = Null THEN Null ELSE ys[i] * Scale]]

\* a sheet with a text column X and the numeric column Y = 1, 2, 3, 4, 5, 6, 100
QuantileSheet ==
    [rows |-> SheetOf(<<1, 1, 1, 1, 1, 1, 1>>, <<1, 2, 3, 4, 5, 6, 100>>),
     dtypes |-> [X |-> "object", Y |-> "number"]]

\* a sheet with two empty cells in the text column X, one repeated row and
\* one row whose Y lies outside the bounds of Y
CycleSheet ==
    [rows |-> SheetOf(<<1, 3, Null, Null, 1>>, <<1, 1, 1, 3, 1>>),
     dtypes |-> [X |-> "object", Y |-> "number"]]

ExampleSheets == {QuantileSheet, CycleSheet}

\* the first successful load, of one of the example sheets
LoadExample ==
    /\ loads = 0
    /\ \E sheet \in ExampleSheets : Loaded(sheet.rows, sheet.dtypes)

\* no file chosen
LoadCancelled == UNCHANGED vars

-----------------------------------------------------------------------------
(* preview_missing / toggle_action / apply_missing *)

\* missing_info[missing_info > 0].index, as a set
MissingCols(rows) == {c \in ColSet : NullCount(rows, c) > 0}

RECURSIVE SumAt(_, _, _)
SumAt(rows, c, I) ==
    IF I = {} THEN 0
    ELSE LET i == CHOOSE j \in I : TRUE IN rows[i][c] + SumAt(rows, c, I \ {i})

\* df[col].mean(): NaN when the column holds no value
Mean(rows, c) ==
    IF NonNull(rows, c) = {} THEN Null
    ELSE SumAt(rows, c, NonNull(rows, c)) \div Cardinality(NonNull(rows, c))

Occurrences(rows, c, v) == Cardinality({i \in 1..Len(rows) : rows[i][c] = v})

\* df[col].mode()[0]: the smallest of the most frequent values
Mode(rows, c) ==
    CHOOSE v \in {rows[i][c] : i \in NonNull(rows, c)} :
        \A w \in {rows[i][c] : i \in NonNull(rows, c)} :
            \/ Occurrences(rows, c, w) < Occurrences(rows, c, v)
            \/ Occurrences(rows, c, w) = Occurrences(rows, c, v) /\ v <= w

FillValue(rows, dtypes, c) ==
    IF dtypes[c] = "number" THEN Mean(rows, c)
    ELSE IF dtypes[c] = "datetime"
         THEN IF NonNull(rows, c) # {} THEN Mode(rows, c) ELSE Today
         ELSE Unknown

\* Faulty variant, for comparison: the rows with an empty cell are dropped
FillnaDropRows(rows, c, v) == TakeRows(1, rows, NonNull(rows, c))

\* df[col] = df[col].fillna(fill_value)
Fillna(rows, c, v) ==
    [i \in 1..Len(rows) |-> IF rows[i][c] = Null THEN [rows[i] EXCEPT ![c] = v] ELSE rows[i]]

PreviewMissing ==
    /\ buttons = "normal"
    /\ ~mwin.open
    /\ IF MissingCols(df.rows) = {}
       THEN /\ mwin' = mwin
       ELSE /\ mwin' = [open |-> TRUE, cycle |-> loads,
                        items |-> [c \in MissingCols(df.rows) |->
                                      [count |-> NullCount(df.rows, c), action |-> "Pending"]]]
    /\ UNCHANGED <<df, report, buttons, owin, saved, loads>>

ToggleAction ==
    /\ mwin.open
    /\ \E c \in DOMAIN mwin.items :
          mwin' = [mwin EXCEPT !.items[c].action =
                      IF mwin.items[c].action = "Pending" THEN "Fill" ELSE "Pending"]
    /\ UNCHANGED <<df, report, buttons, owin, saved, loads>>

\* Faulty variant, for comparison: every listed column is filled, accepted or not
RECURSIVE ApplyMissingLoopAll(_, _, _, _, _)
ApplyMissingLoopAll(i, items, rows, dtypes, actions) ==
    IF i > Len(Cols) THEN [rows |-> rows, actions |-> actions]
    ELSE LET c == Cols[i] IN
         IF c \in DOMAIN items
         THEN ApplyMissingLoopAll(i + 1, items,
                                  Fillna(rows, c, FillValue(rows, dtypes, c)), dtypes,
                                  Record(actions, MissingKey(c), items[c].count))
         ELSE ApplyMissingLoopAll(i + 1, items, rows, dtypes, actions)

\* the loop of apply_missing over the tree items from the i-th column on
RECURSIVE ApplyMissingLoop(_, _, _, _, _)
ApplyMissingLoop(i, items, rows, dtypes, actions) ==
    IF i > Len(Cols) THEN [rows |-> rows, actions |-> actions]
    ELSE LET c == Cols[i] IN
         IF c \in DOMAIN items /\ items[c].action = "Fill"
         THEN ApplyMissingLoop(i + 1, items,
                               Fillna(rows, c, FillValue(rows, dtypes, c)), dtypes,
                               Record(actions, MissingKey(c), items[c].count))
         ELSE ApplyMissingLoop(i + 1, items, rows, dtypes, actions)

ApplyMissing ==
    /\ mwin.open
    /\ LET r == ApplyMissingLoop(1, mwin.items, df.rows, df.dtypes, report.actions) IN
          /\ df' = [df EXCEPT !.rows = r.rows]
          /\ report' = [report EXCEPT !.actions = r.actions]
    /\ mwin' = NoWindow
    /\ UNCHANGED <<buttons, owin, saved, loads>>

\* the user closes the preview window without applying
CloseMissing ==
    /\ mwin.open
    /\ mwin' = NoWindow
    /\ UNCHANGED <<df, report, buttons, owin, saved, loads>>

-----------------------------------------------------------------------------
(* preview_duplicates *)

\* df.duplicated(): row i repeats an earlier row
Duplicated(rows, i) == \E j \in 1..(i - 1) : rows[j] = rows[i]

DuplicatedCount(rows) == Cardinality({i \in 1..Len(rows) : Duplicated(rows, i)})

\* df.drop_duplicates(): one scan keeping the rows not seen before
RECURSIVE DropDuplicatesFrom(_, _, _, _)
DropDuplicatesFrom(i, rows, seen, kept) ==
    IF i > Len(rows) THEN kept
    ELSE IF rows[i] \in seen
         THEN DropDuplicatesFrom(i + 1, rows, seen, kept)
         ELSE DropDuplicatesFrom(i + 1, rows, seen \cup {rows[i]}, Append(kept, rows[i]))

\* Faulty variant, for comparison: only a row that repeats the row right before it is dropped
DropAdjacentDuplicates(rows) ==
    TakeRows(1, rows, {i \in 1..Len(rows) : i = 1 \/ rows[i - 1] # rows[i]})

\* Faulty variant, for comparison: the last occurrence of each row is kept instead of the first
DropDuplicatesKeepLast(rows) ==
    TakeRows(1, rows, {i \in 1..Len(rows) : \A j \in (i + 1)..Len(rows) : rows[j] # rows[i]})

DropDuplicates(rows) == DropDuplicatesFrom(1, rows, {}, <<>>)

\* Faulty variant, for comparison: a count of 0 is recorded when nothing is found
PreviewDuplicatesNoneRecorded ==
    /\ buttons = "normal"
    /\ DuplicatedCount(df.rows) = 0
    /\ report' = [report EXCEPT !.actions = Record(report.actions, DuplicatesKey, 0)]
    /\ UNCHANGED <<df, buttons, mwin, owin, saved, loads>>

\* duplicates_count == 0: "No duplicate rows found."
PreviewDuplicatesNone ==
    /\ buttons = "normal"
    /\ DuplicatedCount(df.rows) = 0
    /\ UNCHANGED vars

\* askyesno answered yes
RemoveDuplicates ==
    /\ buttons = "normal"
    /\ DuplicatedCount(df.rows) # 0
    /\ df' = [df EXCEPT !.rows = DropDuplicates(df.rows)]
    /\ report' = [report EXCEPT !.actions =
                     Record(report.actions, DuplicatesKey, DuplicatedCount(df.rows))]
    /\ UNCHANGED <<buttons, mwin, owin, saved, loads>>

\* askyesno answered no
KeepDuplicates ==
    /\ buttons = "normal"
    /\ DuplicatedCount(df.rows) # 0
    /\ UNCHANGED vars

PreviewDuplicates == PreviewDuplicatesNone \/ RemoveDuplicates \/ KeepDuplicates

-----------------------------------------------------------------------------
(* preview_outliers / apply_outliers *)

\* df.select_dtypes(include=[np.number]).columns, in column order
NumericCols(dtypes) == SelectSeq(Cols, LAMBDA c : dtypes[c] = "number")

\* the j-th smallest value of column c (j from 1), nulls skipped
OrderStat(rows, c, j) ==
    CHOOSE v \in {rows[i][c] : i \in NonNull(rows, c)} :
        /\ Cardinality({i \in NonNull(rows, c) : rows[i][c] < v}) < j
        /\ Cardinality({i \in NonNull(rows, c) : rows[i][c] <= v}) >= j

\* Faulty variant, for comparison: the lower of the two closest ranks is taken
QuantileLower4(rows, c, k) ==
    4 * OrderStat(rows, c, (((Cardinality(NonNull(rows, c)) - 1) * k) \div 4) + 1)

\* 4 * df[col].quantile(k / 4): linear interpolation between the closest
\* ranks of the values present; called only when the column holds a value
Quantile4(rows, c, k) ==
    LET n   == Cardinality(NonNull(rows, c))
        pos == (n - 1) * k
        lo  == pos \div 4
        hi  == IF lo + 1 < n THEN lo + 1 ELSE lo
        a   == OrderStat(rows, c, lo + 1)
        b   == OrderStat(rows, c, hi + 1)
    IN  4 * a + (b - a) * (pos % 4)

\* Q1 - 1.5*IQR and Q3 + 1.5*IQR, both times 8
Bounds8(rows, c) ==
    LET Q1 == Quantile4(rows, c, 1)
        Q3 == Quantile4(rows, c, 3)
        IQR == Q3 - Q1
    IN  [lower |-> 2 * Q1 - 3 * IQR, upper |-> 2 * Q3 + 3 * IQR]

\* (df[col] < Q1 - 1.5*IQR) | (df[col] > Q3 + 1.5*IQR), as the set of row
\* numbers where the mask is True; a comparison with NaN is False
OutlierMask(rows, c) ==
    IF NonNull(rows, c) = {} THEN {}
    ELSE LET b == Bounds8(rows, c) IN
         {i \in NonNull(rows, c) : 8 * rows[i][c] < b.lower \/ 8 * rows[i][c] > b.upper}

\* (df[col] >= Q1 - 1.5*IQR) & (df[col] <= Q3 + 1.5*IQR), likewise
WithinMask(rows, c) ==
    IF NonNull(rows, c) = {} THEN {}
    ELSE LET b == Bounds8(rows, c) IN
         {i \in NonNull(rows, c) : 8 * rows[i][c] >= b.lower /\ 8 * rows[i][c] <= b.upper}

\* the row numbers preview_outliers collects in outlier_rows
OutlierRows(rows, dtypes) ==
    UNION {OutlierMask(rows, c) : c \in {d \in ColSet : dtypes[d] = "number"}}

\* Faulty variant, for comparison: the window opens whenever there is a numeric column
PreviewOutliersAlwaysOpens ==
    /\ buttons = "normal"
    /\ ~owin.open
    /\ IF NumericCols(df.dtypes) = <<>>
       THEN /\ owin' = owin
       ELSE /\ owin' = [open |-> TRUE, cycle |-> loads,
                        numeric_cols |-> NumericCols(df.dtypes)]
    /\ UNCHANGED <<df, report, buttons, mwin, saved, loads>>

PreviewOutliers ==
    /\ buttons = "normal"
    /\ ~owin.open
    /\ IF OutlierRows(df.rows, df.dtypes) = {}
       THEN /\ owin' = owin
       ELSE /\ owin' = [open |-> TRUE, cycle |-> loads,
                        numeric_cols |-> NumericCols(df.dtypes)]
    /\ UNCHANGED <<df, report, buttons, mwin, saved, loads>>

\* df[mask]: a copy of the rows that lie within the bounds of column c
Filtered(rows, c) == TakeRows(1, rows, WithinMask(rows, c))

\* df[col].quantile raises TypeError on a text column that holds a value
QuantileRaises(rows, dtypes, c) == dtypes[c] = "object" /\ NonNull(rows, c) # {}

\* the loop of apply_outliers over numeric_cols from the k-th column on.
\* Per column: df_filtered is computed, every row of df is dropped in place,
\* and df_filtered.index = df.index raises ValueError (length mismatch with
\* the now empty index) unless df_filtered is empty; the callback then ends
\* with df empty, before df.update and before the report entry.
RECURSIVE ApplyOutliersLoop(_, _, _, _, _)
ApplyOutliersLoop(k, cols, rows, dtypes, actions) ==
    IF k > Len(cols) THEN [rows |-> rows, actions |-> actions, raised |-> FALSE]
    ELSE LET c == cols[k] IN
         IF QuantileRaises(rows, dtypes, c)
         THEN [rows |-> rows, actions |-> actions, raised |-> TRUE]
         ELSE LET df_filtered == Filtered(rows, c)
                  removed     == Len(rows) - Len(df_filtered)
              IN  IF df_filtered # <<>>
                  THEN [rows |-> <<>>, actions |-> actions, raised |-> TRUE]
                  ELSE ApplyOutliersLoop(k + 1, cols, <<>>, dtypes,
                                         IF removed > 0
                                         THEN Record(actions, OutlierKey(c), removed)
                                         ELSE actions)

ApplyOutliers ==
    /\ owin.open
    /\ LET r == ApplyOutliersLoop(1, owin.numeric_cols, df.rows, df.dtypes, report.actions) IN
          /\ df' = [df EXCEPT !.rows = r.rows]
          /\ report' = [report EXCEPT !.actions = r.actions]
          /\ owin' = IF r.raised THEN owin ELSE NoWindow
    /\ UNCHANGED <<buttons, mwin, saved, loads>>

\* the user closes the preview window without applying
CloseOutliers ==
    /\ owin.open
    /\ owin' = NoWindow
    /\ UNCHANGED <<df, report, buttons, mwin, saved, loads>>

-----------------------------------------------------------------------------
(* save_cleaned *)

\* Faulty variant, for comparison: the initial row count is stamped as the final one
StampInitialRows(rep, rows) ==
    [rep EXCEPT !.final_rows = rep.initial_rows, !.final_columns = Len(Cols)]

\* report['final_rows'] = df.shape[0]; report['final_columns'] = df.shape[1]
Stamp(rep, rows) == [rep EXCEPT !.final_rows = Len(rows), !.final_columns = Len(Cols)]

\* Faulty variant, for comparison: a save is accepted only while no preview window is open
SaveCleanedNoPreviewOpen ==
    /\ buttons = "normal"
    /\ ~mwin.open
    /\ ~owin.open
    /\ report' = [report EXCEPT !.final_rows = Len(df.rows), !.final_columns = Len(Cols)]
    /\ \E wrote \in BOOLEAN :
          saved' = [table |-> TRUE, report |-> saved.report \/ wrote]
    /\ UNCHANGED <<df, buttons, mwin, owin, loads>>

\* A file name was chosen: the table is written, the report is stamped and
\* then written.  The report holds the nested dict 'actions' in one cell;
\* whether the installed Excel engine writes such a cell or raises is kept
\* open (wrote).
SaveCleaned ==
    /\ buttons = "normal"
    /\ report' = Stamp(report, df.rows)
    /\ \E wrote \in BOOLEAN :
          saved' = [table |-> TRUE, report |-> saved.report \/ wrote]
    /\ UNCHANGED <<df, buttons, mwin, owin, loads>>

\* no file name chosen
SaveCancelled ==
    /\ buttons = "normal"
    /\ UNCHANGED vars

Next ==
    \/ LoadFile
    \/ LoadCancelled
    \/ PreviewMissing
    \/ ToggleAction
    \/ ApplyMissing
    \/ CloseMissing
    \/ PreviewDuplicates
    \/ PreviewOutliers
    \/ ApplyOutliers
    \/ CloseOutliers
    \/ SaveCleaned
    \/ SaveCancelled

\* behaviours with one successful load
Spec == Init /\ [][Next]_vars

\* behaviours with up to MaxLoads successful loads
NextReload == Next \/ Reload

SpecReload == Init /\ [][NextReload]_vars

\* behaviours with one successful load, of a sheet with empty cells in
\* either column
NextSheets ==
    \/ LoadSheet
    \/ LoadCancelled
    \/ PreviewMissing
    \/ ToggleAction
    \/ ApplyMissing
    \/ CloseMissing
    \/ PreviewDuplicates
    \/ PreviewOutliers
    \/ ApplyOutliers
    \/ CloseOutliers
    \/ SaveCleaned
    \/ SaveCancelled

SpecSheets == Init /\ [][NextSheets]_vars

\* behaviours with one successful load, of an example sheet
NextExamples ==
    \/ LoadExample
    \/ LoadCancelled
    \/ PreviewMissing
    \/ ToggleAction
    \/ ApplyMissing
    \/ CloseMissing
    \/ PreviewDuplicates
    \/ PreviewOutliers
    \/ ApplyOutliers
    \/ CloseOutliers
    \/ SaveCleaned
    \/ SaveCancelled

SpecExamples == Init /\ [][NextExamples]_vars

-----------------------------------------------------------------------------
(* Properties *)

RemovalKeys == {DuplicatesKey} \cup {OutlierKey(c) : c \in ColSet}

RECURSIVE SumOver(_, _)
SumOver(actions, K) ==
    IF K = {} THEN 0
    ELSE LET k == CHOOSE x \in K : TRUE IN actions[k] + SumOver(actions, K \ {k})

\* the sum of all removal counts recorded in the report
RemovedTotal(actions) == SumOver(actions, DOMAIN actions \cap RemovalKeys)

\* the columns whose fill is accepted in the open missing-value window
AcceptedCols == {c \in DOMAIN mwin.items : mwin.items[c].action = "Fill"}

\* the k-th smallest member of a set of row numbers
KthIndex(I, k) == CHOOSE i \in I : Cardinality({j \in I : j <= i}) = k

\* rows is what is left of old when exactly the rows numbered in I survive,
\* cells unchanged and in their original relative order
Survivors(rows, old, I) ==
    /\ Len(rows) = Cardinality(I)
    /\ \A k \in 1..Len(rows) : rows[k] = old[KthIndex(I, k)]

\* the rows that have no identical row before them
FirstOccurrences(rows) == {i \in 1..Len(rows) : \A j \in 1..(i - 1) : rows[j] # rows[i]}

\* C9: duplicate removal is idempotent: after a duplicate apply the
\* detection count is 0 and a second removal would remove nothing, and a
\* duplicate preview on a table without duplicates changes neither the
\* table nor the report.
DuplicateRemovalIdempotent ==
    [][/\ RemoveDuplicates =>
            /\ DuplicatedCount(df'.rows) = 0
            /\ DropDuplicates(df'.rows) = df'.rows
            /\ Len(df'.rows) < Len(df.rows)
       /\ (PreviewDuplicates /\ DuplicatedCount(df.rows) = 0) => UNCHANGED <<df, report>>]_vars

\* a table that lost two duplicate rows and holds no duplicate any more
DuplicatesRemovedTwice ==
    /\ DuplicatesKey \in DOMAIN report.actions
    /\ report.actions[DuplicatesKey] = 2
    /\ Len(df.rows) = report.initial_rows - 2
    /\ Len(df.rows) >= 2
    /\ DuplicatedCount(df.rows) = 0

\* C10: a duplicate apply removes exactly the rows that repeat an earlier
\* row, keeps each first occurrence, keeps the survivors in their order, and
\* records the detection count, which is the number of rows removed.
DuplicateRemovalCorrect ==
    [][RemoveDuplicates =>
          /\ Survivors(df'.rows, df.rows, FirstOccurrences(df.rows))
          /\ df'.dtypes = df.dtypes
          /\ report'.actions[DuplicatesKey] = Len(df.rows) - Len(df'.rows)
          /\ report'.actions[DuplicatesKey] =
                Cardinality({i \in 1..Len(df.rows) : \E j \in 1..(i - 1) : df.rows[j] = df.rows[i]})
          /\ \A k \in DOMAIN report.actions \ {DuplicatesKey} :
                k \in DOMAIN report'.actions /\ report'.actions[k] = report.actions[k]]_vars

\* rows [A, B, A, C] became [A, B, C] with one row removed
DuplicateExampleApplied ==
    /\ report.initial_rows = 4
    /\ DOMAIN report.actions = {DuplicatesKey}
    /\ report.actions[DuplicatesKey] = 1
    /\ df.rows = <<[X |-> 1 * Scale, Y |-> 1 * Scale], [X |-> 1 * Scale, Y |-> 3 * Scale],
                   [X |-> 3 * Scale, Y |-> 1 * Scale]>>

\* C1: conservation: at a save, final row count plus all removal counts
\* recorded in the report equals the initial row count.
ConservationAtSave ==
    [][SaveCleaned =>
          report'.final_rows + RemovedTotal(report'.actions) = report'.initial_rows]_vars

\* C2: an outlier apply removes exactly the rows flagged by some numeric
\* column, bounds taken from the table as it is when the apply starts; all
\* other rows survive unchanged and in order.
OutlierApplyRemovesFlagged ==
    [][ApplyOutliers =>
          Survivors(df'.rows, df.rows,
                    (1..Len(df.rows)) \ OutlierRows(df.rows, df.dtypes))]_vars

\* a duplicate apply recorded the number of rows it removed
DuplicateBatchApplied ==
    /\ Len(df'.rows) < Len(df.rows)
    /\ DuplicatesKey \in DOMAIN report'.actions
    /\ report'.actions[DuplicatesKey] = Len(df.rows) - Len(df'.rows)

\* a missing-value apply recorded, for every accepted column, the number of
\* cells it filled
MissingBatchApplied ==
    \A c \in AcceptedCols :
        /\ MissingKey(c) \in DOMAIN report'.actions
        /\ report'.actions[MissingKey(c)] = NullCount(df.rows, c) - NullCount(df'.rows, c)

\* an outlier apply that removed rows recorded an entry for them
OutlierBatchApplied ==
    /\ Len(df'.rows) < Len(df.rows)
    /\ \E c \in ColSet :
          /\ OutlierKey(c) \in DOMAIN report'.actions
          /\ report'.actions[OutlierKey(c)] \in 1..(Len(df.rows) - Len(df'.rows))

\* C3: every resolver apply is all-or-nothing: it applies its batch and
\* records the count of what it changed, or leaves table and report as
\* they were.
ApplyAllOrNothing ==
    [][/\ RemoveDuplicates => (UNCHANGED <<df, report>> \/ DuplicateBatchApplied)
       /\ ApplyMissing => (UNCHANGED <<df, report>> \/ MissingBatchApplied)
       /\ ApplyOutliers => (UNCHANGED <<df, report>> \/ OutlierBatchApplied)]_vars

\* C4: the count recorded for an accepted fill is the number of null cells
\* the column holds immediately before the apply.
FillCountIsCurrent ==
    [][ApplyMissing =>
          \A c \in AcceptedCols :
              /\ MissingKey(c) \in DOMAIN report'.actions
              /\ report'.actions[MissingKey(c)] = NullCount(df.rows, c)]_vars

\* C5: after an accepted fill the column holds no null cell, and its
\* non-null cells are as before.
FillLeavesNoNull ==
    [][ApplyMissing =>
          \A c \in AcceptedCols :
              /\ NullCount(df'.rows, c) = 0
              /\ Len(df'.rows) = Len(df.rows)
              /\ \A i \in NonNull(df.rows, c) : df'.rows[i][c] = df.rows[i][c]]_vars

\* the orchestrator state Finalized: final counts stamped, no preview open
Finalized == report.final_rows # Absent /\ ~mwin.open /\ ~owin.open

\* C6 as stated: a save is accepted only in the Finalized state.
SaveOnlyWhenFinalized == [][SaveCleaned => Finalized]_vars

\* C6 as amended: once a table is loaded a save is accepted in every state;
\* the save itself stamps the final counts from the table as it is, writes
\* the table and leaves it unchanged; before the first load no save is
\* possible and nothing has been written.
SaveAcceptedOnceLoaded ==
    /\ [](/\ ~df.none => ENABLED SaveCleaned
          /\ df.none => (~ENABLED SaveCleaned /\ ~saved.table /\ ~saved.report))
    /\ [][SaveCleaned =>
             /\ df' = df
             /\ saved'.table
             /\ report'.final_rows = Len(df.rows)
             /\ report'.final_columns = Len(Cols)]_vars

\* a save was accepted while an accepted fill was still unapplied
SavedWithPendingAction ==
    /\ saved.table
    /\ report.final_rows = Len(df.rows)
    /\ mwin.open
    /\ AcceptedCols # {}
    /\ \E c \in AcceptedCols : NullCount(df.rows, c) > 0

\* C7: a load resets the report, and every entry the report receives comes
\* from a preview taken under the current load.
ReportOwnedByCycle ==
    [][/\ loads' # loads =>
            report' = [EmptyReport EXCEPT !.initial_rows = Len(df'.rows),
                                          !.initial_columns = Len(Cols)]
       /\ (ApplyMissing /\ report' # report) => mwin.cycle = loads
       /\ (ApplyOutliers /\ report' # report) => owin.cycle = loads]_vars

\* C8 as stated: once stamped by a save the report never changes within
\* the cycle.
ReportImmutableOncePersisted ==
    [][(saved.report /\ report.final_rows # Absent /\ loads' = loads) => report' = report]_vars

\* C8 as amended: every save stamps the final counts with the counts of the
\* table at that save and changes nothing else of the report; the final
\* counts change at a save only and the initial counts at a load only; the
\* action entries stay open to later applies.
FinalCountsStampedAtEachSave ==
    [][/\ SaveCleaned =>
            /\ report'.final_rows = Len(df.rows)
            /\ report'.final_columns = Len(Cols)
            /\ report'.actions = report.actions
            /\ report'.initial_rows = report.initial_rows
            /\ report'.initial_columns = report.initial_columns
       /\ (report'.final_rows # report.final_rows \/ report'.final_columns # report.final_columns)
             => (SaveCleaned \/ loads' # loads)
       /\ (report'.initial_rows # report.initial_rows
              \/ report'.initial_columns # report.initial_columns) => loads' # loads]_vars

\* after a persisted save a later duplicate apply changed the report, whose
\* final row count no longer is the table's
ReportChangedAfterSave ==
    /\ saved.report
    /\ report.final_rows # Absent
    /\ DuplicatesKey \in DOMAIN report.actions
    /\ report.final_rows = Len(df.rows) + report.actions[DuplicatesKey]
    /\ report.final_rows = report.initial_rows

\* the cells of column c are the same in rows as in old
SameColumn(rows, old, c) ==
    /\ Len(rows) = Len(old)
    /\ \A i \in 1..Len(old) : rows[i][c] = old[i][c]

\* key has the same entry, or no entry, in actions as in old
SameEntry(actions, old, key) ==
    /\ key \in DOMAIN actions <=> key \in DOMAIN old
    /\ key \in DOMAIN old => actions[key] = old[key]

\* C11: an action that is not accepted when the apply runs is never
\* applied: the apply leaves the cells of its column as they are, writes no
\* report entry for it, and closes the preview, so that the action is gone;
\* a declined duplicate removal changes neither table nor report.
UnacceptedNeverApplied ==
    [][/\ ApplyMissing =>
            /\ \A c \in DOMAIN mwin.items \ AcceptedCols :
                  /\ SameColumn(df'.rows, df.rows, c)
                  /\ SameEntry(report'.actions, report.actions, MissingKey(c))
            /\ mwin' = NoWindow
       /\ KeepDuplicates => UNCHANGED <<df, report>>]_vars

\* an apply filled column X and left the unaccepted fill of Y unapplied:
\* Y still has its empty cell, holds a value as well, and has no entry
FilledOneLeftOther ==
    /\ ~mwin.open
    /\ MissingKey("X") \in DOMAIN report.actions
    /\ NullCount(df.rows, "X") = 0
    /\ NullCount(df.rows, "Y") > 0
    /\ NonNull(df.rows, "Y") # {}
    /\ MissingKey("Y") \notin DOMAIN report.actions

FillKeepsShape ==
    [][ApplyMissing =>
          /\ Len(df'.rows) = Len(df.rows)
          /\ df'.dtypes = df.dtypes
          /\ \A i \in 1..Len(df'.rows) : DOMAIN df'.rows[i] = ColSet
          /\ \A c \in ColSet \ AcceptedCols : SameColumn(df'.rows, df.rows, c)
          /\ \A c \in AcceptedCols :
                \A i \in NonNull(df.rows, c) : df'.rows[i][c] = df.rows[i][c]
          /\ \A k \in RemovalKeys : SameEntry(report'.actions, report.actions, k)]_vars

\* a fill wrote the placeholder into column X of a table of several rows
\* that had lost a duplicate row before; Y keeps its empty cell
FilledAfterRemoval ==
    /\ MissingKey("X") \in DOMAIN report.actions
    /\ \E i \in 1..Len(df.rows) : df.rows[i]["X"] = Unknown
    /\ NullCount(df.rows, "Y") > 0
    /\ DuplicatesKey \in DOMAIN report.actions
    /\ Len(df.rows) >= 2
    /\ Len(df.rows) + report.actions[DuplicatesKey] = report.initial_rows

\* C14: an outlier apply works on the table as it is when the apply runs:
\* the columns it goes through are the numeric columns of the current table
\* and its outcome is the outcome of the loop run over these columns with
\* bounds taken from the current rows.
OutlierApplyUsesCurrentState ==
    [][ApplyOutliers =>
          /\ owin.numeric_cols = NumericCols(df.dtypes)
          /\ LET r == ApplyOutliersLoop(1, NumericCols(df.dtypes), df.rows, df.dtypes,
                                        report.actions)
             IN  df'.rows = r.rows /\ report'.actions = r.actions]_vars

\* the table holds the example column 1, 2, 3, 4, 5, 6, 100 as loaded
QuantileSheetLoaded == ~df.none /\ df.rows = QuantileSheet.rows /\ df.dtypes = QuantileSheet.dtypes

\* C15 as stated: for the column 1, 2, 3, 4, 5, 6, 100 the quartiles are
\* Q1 = 2 and Q3 = 5, the bounds are -2.5 and 9.5, and 100 alone is flagged.
ExampleBoundsAsStated ==
    QuantileSheetLoaded =>
        /\ Quantile4(df.rows, "Y", 1) = 4 * 2 * Scale
        /\ Quantile4(df.rows, "Y", 3) = 4 * 5 * Scale
        /\ Bounds8(df.rows, "Y") = [lower |-> (0 - 20) * Scale, upper |-> 76 * Scale]
        /\ OutlierRows(df.rows, df.dtypes) = {7}

\* C15 as amended: for the column 1, 2, 3, 4, 5, 6, 100 the quartiles by
\* linear interpolation are Q1 = 2.5 and Q3 = 5.5, the IQR is 3, the bounds
\* are -2 and 10, and 100 alone is flagged: the outlier preview lists row 7
\* and no other row.
ExampleBoundsLinear ==
    QuantileSheetLoaded =>
        /\ Quantile4(df.rows, "Y", 1) = 10 * Scale
        /\ Quantile4(df.rows, "Y", 3) = 22 * Scale
        /\ Quantile4(df.rows, "Y", 3) - Quantile4(df.rows, "Y", 1) = 4 * 3 * Scale
        /\ Bounds8(df.rows, "Y") = [lower |-> (0 - 16) * Scale, upper |-> 80 * Scale]
        /\ OutlierMask(df.rows, "Y") = {7}
        /\ WithinMask(df.rows, "Y") = 1..6
        /\ OutlierRows(df.rows, df.dtypes) = {7}
        /\ (owin.open => owin.numeric_cols = <<"Y">>)

\* the outlier preview is open on the example column
ExamplePreviewed == QuantileSheetLoaded /\ owin.open /\ owin.cycle = loads

\* the example table after the fill of X (0 is the placeholder), after the
\* duplicate removal, and after the outlier removal
CycleFilled == SheetOf(<<1, 3, 0, 0, 1>>, <<1, 1, 1, 3, 1>>)

CycleDeduplicated == SheetOf(<<1, 3, 0, 0>>, <<1, 1, 1, 3>>)

CycleClean == SheetOf(<<1, 3, 0>>, <<1, 1, 1>>)

FillEntry == (MissingKey("X") :> 2)

FillAndDuplicateEntries == FillEntry @@ (DuplicatesKey :> 1)

AllCycleEntries == FillAndDuplicateEntries @@ (OutlierKey("Y") :> 1)

\* C16: the full cycle on the example table (two empty cells in X, one
\* repeated row, one outlier row in Y), every action accepted: the load
\* stamps 5 rows and 2 columns, the fill records missing_filled_X = 2, the
\* duplicate removal duplicates_removed = 1, the outlier removal
\* outliers_removed_Y = 1 leaving 3 rows, and the save stamps 3 rows and 2
\* columns next to exactly these three entries.
CycleReportComplete ==
    [][/\ (loads' # loads /\ df'.rows = CycleSheet.rows) =>
            report' = [EmptyReport EXCEPT !.initial_rows = 5, !.initial_columns = 2]
       /\ (ApplyMissing /\ df.rows = CycleSheet.rows /\ AcceptedCols = {"X"}
              /\ report.actions = NoActions) =>
            (df'.rows = CycleFilled /\ report'.actions = FillEntry)
       /\ (RemoveDuplicates /\ df.rows = CycleFilled /\ report.actions = FillEntry) =>
            (df'.rows = CycleDeduplicated /\ report'.actions = FillAndDuplicateEntries)
       /\ (ApplyOutliers /\ df.rows = CycleDeduplicated
              /\ report.actions = FillAndDuplicateEntries) =>
            (df'.rows = CycleClean /\ report'.actions = AllCycleEntries)
       /\ (SaveCleaned /\ df.rows = CycleClean /\ report.actions = AllCycleEntries) =>
            report' = [initial_rows |-> 5, initial_columns |-> 2,
                       actions |-> AllCycleEntries, final_rows |-> 3, final_columns |-> 2]]_vars

\* a loaded table without empty cells, repeated rows and numeric columns
NothingToFind ==
    /\ ~df.none
    /\ \A c \in ColSet : NullCount(df.rows, c) = 0
    /\ \A i \in 1..Len(df.rows) : \A j \in 1..(i - 1) : df.rows[j] # df.rows[i]
    /\ \A c \in ColSet : df.dtypes[c] # "number"

\* C17: on a table without empty cells, repeated rows and numeric columns
\* each of the three previews runs to its end and changes nothing: no
\* preview window is opened, the table and the report stay as they are.
NothingFoundChangesNothing ==
    NothingToFind =>
        /\ ~mwin.open => ENABLED PreviewMissing
        /\ ENABLED PreviewDuplicates
        /\ ~owin.open => ENABLED PreviewOutliers
        /\ ~ENABLED (PreviewMissing /\ <<df, report, mwin, owin>>' # <<df, report, mwin, owin>>)
        /\ ~ENABLED (PreviewDuplicates /\ <<df, report, mwin, owin>>' # <<df, report, mwin, owin>>)
        /\ ~ENABLED (PreviewOutliers /\ <<df, report, mwin, owin>>' # <<df, report, mwin, owin>>)

\* a loaded table of several rows in which no preview finds anything, no
\* window open and no entry recorded
NothingFoundTable ==
    /\ NothingToFind
    /\ Len(df.rows) >= 2
    /\ ~mwin.open
    /\ ~owin.open
    /\ report.actions = NoActions

\* a loaded table without rows
EmptyTable == ~df.none /\ Len(df.rows) = 0

\* C18 as stated: a preview invoked on a loaded table without rows raises
\* an error instead of running to its end, and changes neither table nor
\* report.  (A step of a preview action is a run of the handler to its
\* end.)
EmptyTableRaises ==
    EmptyTable =>
        /\ ~ENABLED PreviewMissing
        /\ ~ENABLED PreviewDuplicates
        /\ ~ENABLED PreviewOutliers

\* C18 as amended: on a loaded table without rows no preview raises: each
\* runs to its end, finds nothing, opens no window and changes neither
\* table nor report.
EmptyTablePreviewsFindNothing ==
    EmptyTable =>
        /\ ~mwin.open => ENABLED (PreviewMissing /\ UNCHANGED vars)
        /\ ENABLED (PreviewDuplicatesNone /\ UNCHANGED vars)
        /\ ~ENABLED RemoveDuplicates
        /\ ~owin.open => ENABLED (PreviewOutliers /\ UNCHANGED vars)
        /\ ~ENABLED (PreviewMissing /\ vars' # vars)
        /\ ~ENABLED (PreviewDuplicates /\ vars' # vars)
        /\ ~ENABLED (PreviewOutliers /\ vars' # vars)

\* a sheet without data rows is loaded, or the table has lost all its rows,
\* and no preview window is open
EmptyTableNoWindow ==
    /\ EmptyTable
    /\ ~mwin.open
    /\ ~owin.open
    /\ \E c \in ColSet : df.dtypes[c] = "number"

\* C19: while no table is loaded no resolver handler and no save handler
\* can run; the operations are enabled only once a load has succeeded; a
\* cancelled load is possible at any time and changes nothing.
NoHandlerBeforeLoad ==
    /\ df.none =>
          /\ buttons = "disabled"
          /\ loads = 0
          /\ ~ENABLED PreviewMissing
          /\ ~ENABLED ToggleAction
          /\ ~ENABLED ApplyMissing
          /\ ~ENABLED PreviewDuplicates
          /\ ~ENABLED PreviewOutliers
          /\ ~ENABLED ApplyOutliers
          /\ ~ENABLED SaveCleaned
          /\ ~ENABLED SaveCancelled
    /\ buttons = "normal" => (~df.none /\ loads >= 1)
    /\ ENABLED LoadCancelled
    /\ ~ENABLED (LoadCancelled /\ vars' # vars)

\* no table is loaded yet: the buttons are disabled, nothing is recorded,
\* and the file dialog can be cancelled
NoTableLoaded ==
    /\ df.none
    /\ buttons = "disabled"
    /\ report = EmptyReport
    /\ ENABLED LoadCancelled

====
